---- MODULE Spec2Model ----
(***************************************************************************)
(* Model of simple_cursor::Cursor (src/src/lib.rs): a character cursor     *)
(* over a borrowed UTF-8 string that tracks the byte offset of the         *)
(* iterator position.  Strings are sequences of bytes, exactly as a Rust   *)
(* &str is; code points are natural numbers (Unicode scalar values).       *)
(***************************************************************************)
EXTENDS Integers, Sequences, FiniteSets

\* ---------------------------------------------------------------- bounds
\* Longest input, in code points.
MaxLen == 3

\* Code points the inputs are drawn from, one of each UTF-8 width:
\* 'a' (1 byte), U+00E9 (2), U+7ADC, the dragon of the crate documentation
\* (3), U+1F600 (4).
Alphabet == {97, 233, 31452, 128512}

\* "123 foobar<U+7ADC><!>", the input of the crate-level example.
DocInput ==
  <<49, 50, 51, 32, 102, 111, 111, 98, 97, 114, 31452, 60, 33, 62>>

\* "aaaab", the input of tests::skip_while.
TestInput == <<97, 97, 97, 97, 98>>

\* char::is_ascii_digit and char::is_ascii_alphabetic, the predicates of the
\* crate-level example, as the sets of code points they hold for.
is_ascii_digit == 48..57
is_ascii_alphabetic == (65..90) \cup (97..122)

\* ------------------------------------------------------- Option<char>
None == <<>>
Some(c) == <<c>>

\* ------------------------------------------------------------- UTF-8
\* len_utf8 that forgets the three- and four-byte encodings.
len_utf8_short(c) == IF c < 128 THEN 1 ELSE 2

\* char::len_utf8: bytes the code point occupies in UTF-8.
len_utf8(c) ==
  IF c < 128 THEN 1
  ELSE IF c < 2048 THEN 2
  ELSE IF c < 65536 THEN 3
  ELSE 4

\* unwrap_or(1) in place of unwrap_or_default(): an absent code point
\* counts as one byte.
len_or_one(o) == IF o = None THEN 1 ELSE len_utf8(o[1])

\* Option::map(char::len_utf8).unwrap_or_default()
len_or_default(o) == IF o = None THEN 0 ELSE len_utf8(o[1])

\* The bytes of a code point in a &str (UTF-8 encoding).
encode_utf8(c) ==
  IF c < 128 THEN <<c>>
  ELSE IF c < 2048 THEN
    <<192 + (c \div 64), 128 + (c % 64)>>
  ELSE IF c < 65536 THEN
    <<224 + (c \div 4096), 128 + ((c \div 64) % 64), 128 + (c % 64)>>
  ELSE
    <<240 + (c \div 262144), 128 + ((c \div 4096) % 64),
      128 + ((c \div 64) % 64), 128 + (c % 64)>>

\* The bytes of a string given as its code points.
RECURSIVE str_bytes(_)
str_bytes(cs) ==
  IF cs = <<>> THEN <<>> ELSE encode_utf8(Head(cs)) \o str_bytes(Tail(cs))

\* Drop the first n bytes of s.
drop(s, n) == SubSeq(s, n + 1, Len(s))

\* Width of the encoded code point announced by a leading byte.
utf8_char_width(b) ==
  IF b < 128 THEN 1
  ELSE IF b < 224 THEN 2
  ELSE IF b < 240 THEN 3
  ELSE 4

\* Chars::next on an iterator whose remaining bytes (as_str()) are s:
\* decodes one code point from the front and advances past its bytes.
chars_next(s) ==
  IF s = <<>> THEN [item |-> None, rest |-> <<>>]
  ELSE
    LET w == utf8_char_width(s[1])
        c == IF w = 1 THEN s[1]
             ELSE IF w = 2 THEN (s[1] % 32) * 64 + (s[2] % 64)
             ELSE IF w = 3 THEN
               (s[1] % 16) * 4096 + (s[2] % 64) * 64 + (s[3] % 64)
             ELSE
               (s[1] % 8) * 262144 + (s[2] % 64) * 4096
                 + (s[3] % 64) * 64 + (s[4] % 64)
    IN [item |-> Some(c), rest |-> drop(s, w)]

\* ---------------------------------------------------- Cursor methods
\* Each method maps the cursor's fields (ch = self.chars as its remaining
\* bytes, bp = self.byte_pos) to the fields after the call and the result.

\* new that starts byte_pos at the length of the input.
new_at_end(input_str) == [chars |-> input_str, byte_pos |-> Len(input_str)]

\* Cursor::new
new(input_str) == [chars |-> input_str, byte_pos |-> 0]

\* peek that advances the iterator itself instead of a clone.
peek_no_clone(ch, bp) ==
  LET n == chars_next(ch)
  IN [chars |-> n.rest, byte_pos |-> bp, ret |-> <<n.item>>]

\* Cursor::peek
peek(ch, bp) ==
  LET cloned == ch
  IN [chars |-> ch, byte_pos |-> bp, ret |-> <<chars_next(cloned).item>>]

\* peek_two that clones the iterator afresh for the second element.
peek_two_reclone(ch, bp) ==
  [chars |-> ch, byte_pos |-> bp,
   ret |-> <<chars_next(ch).item, chars_next(ch).item>>]

\* Cursor::peek_two
peek_two(ch, bp) ==
  LET cloned == ch
      n1 == chars_next(cloned)
      n2 == chars_next(n1.rest)
  IN [chars |-> ch, byte_pos |-> bp, ret |-> <<n1.item, n2.item>>]

\* bump that counts code points: adds 1 for a present code point.
bump_count_chars(ch, bp) ==
  LET n == chars_next(ch)
      c == n.item
  IN [chars |-> n.rest, byte_pos |-> bp + (IF c = None THEN 0 ELSE 1),
      ret |-> <<c>>]

\* bump that assigns the code point's length to byte_pos instead of adding it.
bump_assign(ch, bp) ==
  LET n == chars_next(ch)
      c == n.item
  IN [chars |-> n.rest, byte_pos |-> len_or_default(c), ret |-> <<c>>]

\* Cursor::bump
bump(ch, bp) ==
  LET n == chars_next(ch)
      c == n.item
  IN [chars |-> n.rest, byte_pos |-> bp + len_or_default(c), ret |-> <<c>>]

\* bump_two that adds the first code point's length twice.
bump_two_first_twice(ch, bp) ==
  LET n1 == chars_next(ch)
      n2 == chars_next(n1.rest)
      c1 == n1.item
      c2 == n2.item
      bp1 == bp + len_or_default(c1)
      bp2 == bp1 + len_or_default(c1)
  IN [chars |-> n2.rest, byte_pos |-> bp2, ret |-> <<c1, c2>>]

\* bump_two that returns the pair in the wrong order.
bump_two_swapped(ch, bp) ==
  LET n1 == chars_next(ch)
      n2 == chars_next(n1.rest)
      c1 == n1.item
      c2 == n2.item
      bp1 == bp + len_or_default(c1)
      bp2 == bp1 + len_or_default(c2)
  IN [chars |-> n2.rest, byte_pos |-> bp2, ret |-> <<c2, c1>>]

\* Cursor::bump_two
bump_two(ch, bp) ==
  LET n1 == chars_next(ch)
      n2 == chars_next(n1.rest)
      c1 == n1.item
      c2 == n2.item
      bp1 == bp + len_or_default(c1)
      bp2 == bp1 + len_or_default(c2)
  IN [chars |-> n2.rest, byte_pos |-> bp2, ret |-> <<c1, c2>>]

\* The loop written as Iterator::take_while would run it: it takes the next
\* code point first and tests it afterwards, so the first non-matching code
\* point is consumed too.
RECURSIVE skip_loop_take_while(_, _)
skip_loop_take_while(ch, p) ==
  LET n == chars_next(ch)
  IN IF n.item = None
     THEN [chars |-> ch, evals |-> <<>>, skipped |-> <<>>, iters |-> 0]
     ELSE IF n.item[1] \in p
     THEN LET r == skip_loop_take_while(n.rest, p)
          IN [chars |-> r.chars,
              evals |-> <<n.item[1]>> \o r.evals,
              skipped |-> <<n.item[1]>> \o r.skipped,
              iters |-> r.iters + 1]
     ELSE [chars |-> n.rest, evals |-> <<n.item[1]>>,
           skipped |-> <<n.item[1]>>, iters |-> 1]

\* The loop with a body that advances the iterator twice.
RECURSIVE skip_loop_double_next(_, _)
skip_loop_double_next(ch, p) ==
  LET pk == chars_next(ch).item
  IN IF pk # None /\ pk[1] \in p
     THEN LET n1 == chars_next(ch)
              n2 == chars_next(n1.rest)
              r == skip_loop_double_next(n2.rest, p)
          IN [chars |-> r.chars,
              evals |-> <<pk[1]>> \o r.evals,
              skipped |-> <<n1.item[1]>> \o n2.item \o r.skipped,
              iters |-> r.iters + 1]
     ELSE [chars |-> ch,
           evals |-> IF pk = None THEN <<>> ELSE <<pk[1]>>,
           skipped |-> <<>>,
           iters |-> 0]

\* The while loop of Cursor::skip_while, from iterator state ch with
\* predicate p (the set of code points it holds for).  evals lists the code
\* points the predicate was applied to, skipped the items the loop body's
\* self.chars.next() yielded, iters the number of times the body ran.
RECURSIVE skip_loop(_, _)
skip_loop(ch, p) ==
  LET pk == peek(ch, 0).ret[1]
  IN IF pk # None /\ pk[1] \in p
     THEN LET n == chars_next(ch)
              r == skip_loop(n.rest, p)
          IN [chars |-> r.chars,
              evals |-> <<pk[1]>> \o r.evals,
              skipped |-> <<n.item[1]>> \o r.skipped,
              iters |-> r.iters + 1]
     ELSE [chars |-> ch,
           evals |-> IF pk = None THEN <<>> ELSE <<pk[1]>>,
           skipped |-> <<>>,
           iters |-> 0]

\* skip_while that advances byte_pos by the number of code points skipped
\* instead of the number of bytes.
skip_while_count_iters(ch, bp, p) ==
  LET r == skip_loop(ch, p)
  IN [chars |-> r.chars, byte_pos |-> bp + r.iters,
      ret |-> <<>>, evals |-> r.evals, skipped |-> r.skipped,
      iters |-> r.iters]

\* skip_while that subtracts the lengths the wrong way round.
skip_while_reversed(ch, bp, p) ==
  LET start_length == Len(ch)
      r == skip_loop(ch, p)
      final_length == Len(r.chars)
  IN [chars |-> r.chars, byte_pos |-> bp + (final_length - start_length),
      ret |-> <<>>, evals |-> r.evals, skipped |-> r.skipped,
      iters |-> r.iters]

\* Cursor::skip_while
skip_while(ch, bp, p) ==
  LET start_length == Len(ch)
      r == skip_loop(ch, p)
      final_length == Len(r.chars)
  IN [chars |-> r.chars, byte_pos |-> bp + (start_length - final_length),
      ret |-> <<>>, evals |-> r.evals, skipped |-> r.skipped,
      iters |-> r.iters]

\* ------------------------------------------------------------- state
VARIABLES
  text,       \* the input string as its code points
  input,      \* the input string as its UTF-8 bytes (the borrowed &str)
  chars,      \* Cursor.chars: the bytes the iterator has not yet yielded
  byte_pos,   \* Cursor.byte_pos
  op,         \* the method called last
  ret,        \* what it returned: its Option<char> results, in order
  pre,        \* the cursor's fields when it was called
  pred,       \* the predicate of the last skip_while
  evals,      \* the code points that call applied the predicate to
  iters,      \* the number of times that call's loop body ran
  mark,       \* the value the last byte_pos() call returned (0 before any)
  consumed    \* the code points consumed since that call

vars == <<text, input, chars, byte_pos, op, ret, pre, pred, evals, iters,
          mark, consumed>>

\* All strings of at most n code points.
Texts(n) == UNION {[1..k -> Alphabet] : k \in 0..n}

\* The predicates handed to skip_while: every fn(char) -> bool, as the set
\* of code points of the alphabet it is true of.
Predicates == (SUBSET Alphabet) \cup {is_ascii_digit, is_ascii_alphabetic}

Init ==
  /\ text \in Texts(MaxLen) \cup {DocInput, TestInput}
  /\ input = str_bytes(text)
  /\ chars = new(input).chars
  /\ byte_pos = new(input).byte_pos
  /\ op = "new"
  /\ ret = <<>>
  /\ pre = [chars |-> input, byte_pos |-> 0]
  /\ pred = {}
  /\ evals = <<>>
  /\ iters = 0
  /\ mark = 0
  /\ consumed = <<>>

\* The code points of a sequence of Option<char> results that are present.
RECURSIVE present(_)
present(os) ==
  IF os = <<>> THEN <<>>
  ELSE (IF Head(os) = None THEN <<>> ELSE Head(os)) \o present(Tail(os))

\* A call of a method without predicate whose outcome is r.
Call(name, r) ==
  /\ chars' = r.chars
  /\ byte_pos' = r.byte_pos
  /\ op' = name
  /\ ret' = r.ret
  /\ pre' = [chars |-> chars, byte_pos |-> byte_pos]
  /\ pred' = {}
  /\ evals' = <<>>
  /\ iters' = 0
  /\ UNCHANGED <<text, input, mark>>

Peek ==
  /\ Call("peek", peek(chars, byte_pos))
  /\ UNCHANGED consumed

PeekTwo ==
  /\ Call("peek_two", peek_two(chars, byte_pos))
  /\ UNCHANGED consumed

Bump ==
  LET r == bump(chars, byte_pos)
  IN /\ Call("bump", r)
     /\ consumed' = consumed \o present(r.ret)

BumpTwo ==
  LET r == bump_two(chars, byte_pos)
  IN /\ Call("bump_two", r)
     /\ consumed' = consumed \o present(r.ret)

SkipWhile ==
  \E p \in Predicates :
    LET r == skip_while(chars, byte_pos, p)
    IN /\ chars' = r.chars
       /\ byte_pos' = r.byte_pos
       /\ op' = "skip_while"
       /\ ret' = r.ret
       /\ pre' = [chars |-> chars, byte_pos |-> byte_pos]
       /\ pred' = p
       /\ evals' = r.evals
       /\ iters' = r.iters
       /\ consumed' = consumed \o r.skipped
       /\ UNCHANGED <<text, input, mark>>

\* Cursor::byte_pos: the caller reads the offset (the start of a span).
BytePos ==
  /\ mark' = byte_pos
  /\ consumed' = <<>>
  /\ op' = "byte_pos"
  /\ ret' = <<>>
  /\ pre' = [chars |-> chars, byte_pos |-> byte_pos]
  /\ pred' = {}
  /\ evals' = <<>>
  /\ iters' = 0
  /\ UNCHANGED <<text, input, chars, byte_pos>>

\* Cursor::chars: hands out a shared reference to the iterator.
CharsRef ==
  /\ op' = "chars"
  /\ ret' = <<>>
  /\ pre' = [chars |-> chars, byte_pos |-> byte_pos]
  /\ pred' = {}
  /\ evals' = <<>>
  /\ iters' = 0
  /\ UNCHANGED <<text, input, chars, byte_pos, mark, consumed>>

Next ==
  \/ Peek
  \/ PeekTwo
  \/ Bump
  \/ BumpTwo
  \/ SkipWhile
  \/ BytePos
  \/ CharsRef

Spec == Init /\ [][Next]_vars

\* A caller that does nothing but call bump(), again and again.
NextBump == Bump

BumpSpec == Init /\ [][NextBump]_vars /\ WF_vars(Bump)

\* ------------------------------------------------------- vocabulary
\* The code points of a string given as its bytes, front to back.
RECURSIVE code_points(_)
code_points(s) ==
  IF s = <<>> THEN <<>>
  ELSE <<chars_next(s).item[1]>> \o code_points(chars_next(s).rest)

\* The i-th element of cs if there is one.
nth(cs, i) == IF i <= Len(cs) THEN Some(cs[i]) ELSE None

\* &s[a..b]
slice(s, a, b) == SubSeq(s, a + 1, b)

\* a is a suffix of b.
IsSuffix(a, b) == Len(a) <= Len(b) /\ a = drop(b, Len(b) - Len(a))

\* The byte offsets at which a code point of the input starts, and its end.
Boundaries == {Len(str_bytes(SubSeq(text, 1, k))) : k \in 0..Len(text)}

\* What the last call consumed, as bytes and as code points.
ConsumedBytes == SubSeq(pre.chars, 1, Len(pre.chars) - Len(chars))
ConsumedChars == code_points(ConsumedBytes)

\* ------------------------------------------------------------ claims

\* C1: in every reachable state the remaining text is the suffix of the
\* input that starts at byte offset byte_pos, and byte_pos plus the byte
\* length of the remaining text is the byte length of the input.
C1_RemainingIsSuffixAtBytePos ==
  /\ chars = drop(input, byte_pos)
  /\ byte_pos + Len(chars) = Len(input)

\* skip_while has skipped multi-byte code points and stopped before the end.
C1_Witness ==
  /\ op = "skip_while"
  /\ iters >= 1
  /\ byte_pos - pre.byte_pos > iters
  /\ pre.byte_pos > 0
  /\ chars # <<>>

\* C2: skip_while consumes only code points the predicate holds for, and
\* after it peek() is empty or a code point the predicate fails for; that
\* terminating code point is not consumed and is what peek() and bump()
\* return next.  On "aaaab", skip_while(c == 'a') ends at position 4 with
\* 'b' next.
C2_SkipWhileStopsBeforeFirstNonMatch ==
  op = "skip_while" =>
    LET before == code_points(pre.chars)
        k == Len(ConsumedChars)
        pk == peek(chars, byte_pos).ret[1]
    IN /\ pre.chars = ConsumedBytes \o chars
       /\ \A i \in 1..k : ConsumedChars[i] \in pred
       /\ pk = None \/ pk[1] \notin pred
       /\ pk = nth(before, k + 1)
       /\ bump(chars, byte_pos).ret[1] = pk
       /\ (text = TestInput /\ pre.byte_pos = 0 /\ pred = {97}) =>
            (byte_pos = 4 /\ pk = Some(98))

\* skip_while has skipped some code points and stopped at a non-matching one.
C2_Witness ==
  /\ op = "skip_while"
  /\ iters >= 2
  /\ chars # <<>>
  /\ peek(chars, byte_pos).ret[1][1] \notin pred
  /\ pred # {}

\* C3: bump_two returns the pair and ends in the state that two bump calls
\* in a row would: with one code point left the result is (present, absent)
\* and byte_pos advances by that code point's byte length, with none left
\* the result is (absent, absent) and byte_pos does not move.
C3_BumpTwoIsTwoBumps ==
  op = "bump_two" =>
    LET b1 == bump(pre.chars, pre.byte_pos)
        b2 == bump(b1.chars, b1.byte_pos)
        left == code_points(pre.chars)
    IN /\ ret = <<b1.ret[1], b2.ret[1]>>
       /\ byte_pos = b2.byte_pos
       /\ chars = b2.chars
       /\ Len(left) >= 2 => (ret[1] # None /\ ret[2] # None)
       /\ Len(left) = 1 =>
            /\ ret = <<Some(left[1]), None>>
            /\ byte_pos = pre.byte_pos + Len(encode_utf8(left[1]))
       /\ Len(left) = 0 =>
            (ret = <<None, None>> /\ byte_pos = pre.byte_pos)

\* bump_two was called with exactly one, multi-byte, code point left.
C3_Witness ==
  /\ op = "bump_two"
  /\ ret[1] # None
  /\ ret[2] = None
  /\ byte_pos - pre.byte_pos >= 2
  /\ pre.byte_pos > 0

\* C4: bump returns what peek returned just before it, and advances
\* byte_pos by the UTF-8 length of the code point it returned (1 to 4
\* bytes: 3 for U+7ADC, 1 for '!'), by 0 when it returned nothing.
C4_BumpReturnsPeekAndAddsLength ==
  op = "bump" =>
    LET d == byte_pos - pre.byte_pos
    IN /\ ret = peek(pre.chars, pre.byte_pos).ret
       /\ ret[1] = None => d = 0
       /\ ret[1] # None =>
            /\ d = Len(encode_utf8(ret[1][1]))
            /\ d \in 1..4
            /\ pre.chars = encode_utf8(ret[1][1]) \o chars
       /\ ret[1] = Some(31452) => d = 3
       /\ ret[1] = Some(33) => d = 1

\* bump has returned a four-byte code point.
C4_Witness ==
  /\ op = "bump"
  /\ ret = <<Some(128512)>>
  /\ byte_pos = pre.byte_pos + 4

\* C5: peek changes neither byte_pos nor the remaining text, and a second
\* peek returns what the first returned.
C5_PeekIsPure ==
  op = "peek" =>
    /\ chars = pre.chars
    /\ byte_pos = pre.byte_pos
    /\ peek(chars, byte_pos).ret = ret

\* peek has returned a code point in the middle of the input.
C5_Witness ==
  /\ op = "peek"
  /\ ret[1] # None
  /\ byte_pos > 0

\* C6: peek_two returns the code points 0 and 1 ahead in the remaining
\* text, each present or absent on its own, and changes neither byte_pos
\* nor the remaining text.
C6_PeekTwoLooksTwoAhead ==
  op = "peek_two" =>
    LET left == code_points(chars)
    IN /\ ret = <<nth(left, 1), nth(left, 2)>>
       /\ Len(left) = 1 => (ret[1] # None /\ ret[2] = None)
       /\ Len(left) = 0 => ret = <<None, None>>
       /\ chars = pre.chars
       /\ byte_pos = pre.byte_pos

\* peek_two has returned two different code points.
C6_Witness ==
  /\ op = "peek_two"
  /\ ret[1] # None
  /\ ret[2] # None
  /\ ret[1] # ret[2]
  /\ byte_pos > 0

\* C7: a caller that only calls bump() gets the empty result after finitely
\* many calls, no earlier than after as many code points as the input has;
\* byte_pos is then the byte length of the input, and from then on bump()
\* keeps returning the empty result and byte_pos stays there.
C7_BumpUntilEmpty ==
  /\ []((op = "bump" /\ ret = <<None>>) =>
         (byte_pos = Len(input) /\ Len(consumed) = Len(text)))
  /\ <>[](op = "bump" /\ ret = <<None>> /\ byte_pos = Len(input))

\* bump has returned the empty result at the end of a multi-byte input.
C7_Witness ==
  /\ op = "bump"
  /\ ret = <<None>>
  /\ Len(text) >= 2
  /\ byte_pos > Len(text)

\* C8: byte_pos is always a code-point boundary of the input: 0, the
\* input's byte length, or the offset at which a code point starts.
C8_BytePosOnBoundary == byte_pos \in Boundaries

\* A multi-byte code point has been consumed and another follows.
C8_Witness ==
  /\ op \in {"bump", "bump_two", "skip_while"}
  /\ byte_pos > pre.byte_pos
  /\ byte_pos > Len(code_points(slice(input, 0, byte_pos)))
  /\ chars # <<>>
  /\ utf8_char_width(chars[1]) > 1

\* C9: no operation takes byte_pos down, and the remaining text after an
\* operation is a suffix of the remaining text before it.
C9_OnlyForward ==
  [][byte_pos' >= byte_pos /\ IsSuffix(chars', chars)]_vars

\* An operation has moved the cursor forward from a position past the start.
C9_Witness ==
  /\ op \in {"bump", "bump_two", "skip_while"}
  /\ pre.byte_pos > 0
  /\ byte_pos > pre.byte_pos
  /\ Len(chars) < Len(pre.chars)

\* C10: between a byte_pos() read and the current byte_pos, the slice of
\* the input is the concatenation of the code points consumed since the
\* read.  In the crate-level example the digits span 0..3, bump() returns
\* ' ' and the letters span 4..10.
C10_SpanIsConsumedText ==
  /\ mark <= byte_pos
  /\ slice(input, mark, byte_pos) = str_bytes(consumed)
  /\ (text = DocInput /\ op = "skip_while" /\ pre.byte_pos = 0
        /\ pred = is_ascii_digit) =>
       (byte_pos = 3 /\ code_points(slice(input, 0, byte_pos)) = <<49, 50, 51>>)
  /\ (text = DocInput /\ op = "bump" /\ pre.byte_pos = 3) =>
       (ret = <<Some(32)>> /\ byte_pos = 4)
  /\ (text = DocInput /\ op = "skip_while" /\ pre.byte_pos = 4
        /\ pred = is_ascii_alphabetic) =>
       (byte_pos = 10 /\ code_points(slice(input, 4, byte_pos))
                           = <<102, 111, 111, 98, 97, 114>>)

\* The letters of the crate-level example have been skipped after a
\* byte_pos() read at 4.
C10_Witness ==
  /\ text = DocInput
  /\ op = "skip_while"
  /\ pred = is_ascii_alphabetic
  /\ mark = 4
  /\ byte_pos = 10
  /\ consumed = <<102, 111, 111, 98, 97, 114>>

\* The reference loop: while peek() is present and the predicate holds
\* for it, call bump().
RECURSIVE peek_bump_loop(_, _, _)
peek_bump_loop(ch, bp, p) ==
  LET pk == peek(ch, bp).ret[1]
  IN IF pk # None /\ pk[1] \in p
     THEN LET b == bump(ch, bp) IN peek_bump_loop(b.chars, b.byte_pos, p)
     ELSE [chars |-> ch, byte_pos |-> bp]

\* The sum of the UTF-8 lengths of the code points cs.
RECURSIVE encoded_len(_)
encoded_len(cs) ==
  IF cs = <<>> THEN 0 ELSE Len(encode_utf8(Head(cs))) + encoded_len(Tail(cs))

\* C11: skip_while, which updates byte_pos once from the difference of the
\* remaining lengths, ends in the state the loop "while peek() is present
\* and the predicate holds, bump()" ends in: byte_pos advances by the sum
\* of the encoded lengths of the skipped code points.
C11_SkipWhileIsPeekBumpLoop ==
  op = "skip_while" =>
    LET r == peek_bump_loop(pre.chars, pre.byte_pos, pred)
    IN /\ chars = r.chars
       /\ byte_pos = r.byte_pos
       /\ byte_pos = pre.byte_pos + encoded_len(ConsumedChars)

\* skip_while has skipped code points of different widths, one of them
\* multi-byte.
C11_Witness ==
  /\ op = "skip_while"
  /\ iters >= 2
  /\ ConsumedChars[1] # ConsumedChars[2]
  /\ byte_pos - pre.byte_pos >= 3

\* C12: right after Cursor::new byte_pos is 0 and the remaining text is
\* the whole input; on the empty input peek() and bump() return the empty
\* result and byte_pos stays 0.
C12_FreshCursor ==
  /\ op = "new" => (byte_pos = 0 /\ chars = input /\ chars = str_bytes(text))
  /\ (text = <<>> /\ op \in {"peek", "bump"}) =>
       (ret = <<None>> /\ byte_pos = 0)

\* bump has been called on the cursor of the empty input.
C12_Witness ==
  /\ text = <<>>
  /\ op = "bump"
  /\ ret = <<None>>
  /\ byte_pos = 0

\* C13: the operations have no precondition (no action of Next has a
\* guard), absence is an ordinary result, and the exhausted state is
\* absorbing: called with the remaining text empty, peek and bump return
\* absent, peek_two and bump_two (absent, absent), skip_while returns
\* without running its body or its predicate, and byte_pos and the remaining
\* text stay as they are.
C13_TotalAndExhaustedAbsorbing ==
  pre.chars = <<>> =>
    /\ chars = <<>>
    /\ byte_pos = pre.byte_pos
    /\ op \in {"peek", "bump"} => ret = <<None>>
    /\ op \in {"peek_two", "bump_two"} => ret = <<None, None>>
    /\ op = "skip_while" => (iters = 0 /\ evals = <<>>)

\* bump_two has been called at the end of a non-empty input.
C13_Witness ==
  /\ op = "bump_two"
  /\ pre.chars = <<>>
  /\ pre.byte_pos > 0
  /\ ret = <<None, None>>

\* C14: the loop of skip_while runs once per skipped code point, each run
\* removing one code point from the remaining text, so it runs at most as
\* often as code points remained when it was called.
C14_SkipWhileLoopBound ==
  op = "skip_while" =>
    /\ iters = Len(ConsumedChars)
    /\ Len(code_points(chars)) + iters = Len(code_points(pre.chars))
    /\ iters <= Len(code_points(pre.chars))

\* The predicate held for every remaining code point and the loop ran for
\* each of them.
C14_Witness ==
  /\ op = "skip_while"
  /\ iters >= 2
  /\ iters = Len(code_points(pre.chars))
  /\ chars = <<>>

\* C15: skip_while applies the predicate, in input order, to each skipped
\* code point and to the first non-matching one if there is one, and to
\* none after it; when the input runs out there is no terminating code
\* point to apply it to.
C15_PredicateEvaluations ==
  op = "skip_while" =>
    LET before == code_points(pre.chars)
        k == Len(ConsumedChars)
    IN /\ evals = SubSeq(before, 1, IF k < Len(before) THEN k + 1 ELSE k)
       /\ \A i \in 1..k : evals[i] \in pred
       /\ chars # <<>> => (Len(evals) = k + 1 /\ evals[k + 1] \notin pred)
       /\ chars = <<>> => Len(evals) = k

\* skip_while stopped at a non-matching code point with more input after it.
C15_Witness ==
  /\ op = "skip_while"
  /\ iters >= 1
  /\ Len(evals) = iters + 1
  /\ Len(code_points(chars)) >= 2

\* C16: byte_pos stays between 0 and the byte length of the input, as does
\* every intermediate sum of bump_two, so no addition leaves the range of
\* the offset; in skip_while the remaining length after the loop does not
\* exceed the one before it.
C16_BytePosInRange ==
  /\ byte_pos \in 0..Len(input)
  /\ op = "bump_two" =>
       pre.byte_pos + len_or_default(ret[1]) \in 0..Len(input)
  /\ op = "skip_while" =>
       /\ Len(pre.chars) - Len(chars) >= 0
       /\ pre.byte_pos + (Len(pre.chars) - Len(chars)) \in 0..Len(input)

\* skip_while has run to the end of the input from past its start.
C16_Witness ==
  /\ op = "skip_while"
  /\ pre.byte_pos > 0
  /\ byte_pos = Len(input)
  /\ Len(pre.chars) > Len(chars)

\* C17: bump_two returns the pair peek_two returned just before it.
C17_PeekTwoPredictsBumpTwo ==
  op = "bump_two" => ret = peek_two(pre.chars, pre.byte_pos).ret

\* bump_two has returned two different code points.
C17_Witness ==
  /\ op = "bump_two"
  /\ ret[1] # None
  /\ ret[2] # None
  /\ ret[1] # ret[2]

\* C18: a second skip_while with the same predicate right after the first
\* consumes nothing and leaves byte_pos and the remaining text as they are.
C18_SkipWhileIdempotent ==
  op = "skip_while" =>
    LET again == skip_while(chars, byte_pos, pred)
    IN /\ again.chars = chars
       /\ again.byte_pos = byte_pos
       /\ again.iters = 0
       /\ again.skipped = <<>>

\* skip_while has skipped a code point and left two or more behind.
C18_Witness ==
  /\ op = "skip_while"
  /\ iters = 1
  /\ Len(code_points(chars)) >= 2
  /\ pred # {}

\* C19: neither peek_two nor bump_two returns a pair whose first element
\* is absent and whose second is present.
C19_NoAbsentThenPresent ==
  op \in {"peek_two", "bump_two"} => ~(ret[1] = None /\ ret[2] # None)

\* peek_two or bump_two has been called with one code point left.
C19_Witness ==
  /\ op \in {"peek_two", "bump_two"}
  /\ Len(code_points(pre.chars)) = 1
  /\ ret[1] # None
  /\ ret[2] = None
====
